---- MODULE Spec2Model ----
(***************************************************************************)
(* raplay: the playback control state machine of src/main.rs.              *)
(*                                                                         *)
(* The state is the App structure (src/main.rs:69-82) together with the    *)
(* rodio Sink the run loop commands, the mpsc channel of run_app, and the  *)
(* position of the run loop (running, returned with an error, panicked,    *)
(* quit).  One action per event the loop of run_app handles: a 'p' key     *)
(* (Toggle), an 'l' key (Load), a 'q' key (Quit), any other key, a poll    *)
(* timeout (Tick); the audio thread that plays the sink is the environment *)
(* (SinkAdvance, SinkFinish).                                              *)
(*                                                                         *)
(* Strings are sequences of one-character strings, so that ends_with and   *)
(* the formatting of times and of the progress bar are computed.           *)
(***************************************************************************)
EXTENDS Integers, Sequences, FiniteSets, TLC

VARIABLES
    audio_path,       \* App.audio_path
    audio_sink,       \* App.audio_sink: [queue, paused, pos]
    song_name,        \* App.song_name
    song_curr_time,   \* App.song_curr_time
    song_duration,    \* App.song_duration
    song_progress,    \* App.song_progress
    play_state,       \* App.play_state
    audio_file_list,  \* App.audio_file_list: [dirs, files]
    curr_playlist,    \* App.curr_playlist
    curr_songid,      \* App.curr_songid (u16)
    curr_songnum,     \* App.curr_songnum (u16)
    chan,             \* number of messages in the channel (tx, rx) of run_app
    pc,               \* "run" | "error" (run_app returned Err) | "panic" | "quit"
    last,             \* history: the event handled by the last step and what it did
    first,            \* history: the first stream appended while the first playlist is loaded
    adv,              \* the cursor walk of SpecAdvance: [n, c0, c, k, checks, dead]
    scan,             \* the scan of SpecScan: [dir, openOk, done, res, files]
    disp              \* the display of SpecDisplay: [curr, total, empty, old, done, ...]

vars == <<audio_path, audio_sink, song_name, song_curr_time, song_duration,
          song_progress, play_state, audio_file_list, curr_playlist,
          curr_songid, curr_songnum, chan, pc, last, first, adv, scan, disp>>

appVars == <<audio_path, audio_sink, song_name, song_curr_time, song_duration,
             song_progress, play_state, audio_file_list, curr_playlist,
             curr_songid, curr_songnum, chan, pc, last, first>>

----------------------------------------------------------------------------
(* Bounds of the model *)

\* longest directory listing a load scans
MaxDirLen == 2
\* largest position, in seconds, a stream of unknown length is played to
MaxPos == 2

----------------------------------------------------------------------------
(* Program constants *)

U16Max == 65535
U16Mod == 65536
UnknownDur == 36000
BarLength == 25

----------------------------------------------------------------------------
(* Strings *)

EmptyStr == << >>

DigitChars == <<"0", "1", "2", "3", "4", "5", "6", "7", "8", "9">>

Digit(n) == DigitChars[n + 1]

RECURSIVE DecStr(_)
\* format!("{}", n)
DecStr(n) == IF n < 10 THEN <<Digit(n)>> ELSE DecStr(n \div 10) \o <<Digit(n % 10)>>

\* format!("{:02}", n)
Pad2(n) == IF n < 10 THEN <<"0", Digit(n)>> ELSE DecStr(n)

\* format!("{}:{:02}:{:02}", dur/3600, dur%3600/60, dur%60)
FormatTime(dur) ==
    DecStr(dur \div 3600) \o <<":">> \o Pad2((dur % 3600) \div 60) \o <<":">> \o Pad2(dur % 60)

\* n copies of the character ch
Repeat(ch, n) == [i \in 1..n |-> ch]

InitProgress == Repeat("-", 25)
IndeterminateBar == Repeat("=", 12) \o <<"/">> \o Repeat("=", 12)
DurPlaceholder == <<"?", "[", "-", "_", "-", "#", "]">>
NoAudioMsg == <<"t","h","e","r","e","'","s"," ","n","o"," ","a","u","d","i","o"," ",
                "f","i","l","e","s",".">>
DotDot == <<".", ".">>

\* str::ends_with
EndsWith(s, suf) ==
    /\ Len(s) >= Len(suf)
    /\ SubSeq(s, Len(s) - Len(suf) + 1, Len(s)) = suf

Mp3 == <<"m", "p", "3">>
Flac == <<"f", "l", "a", "c">>
Ogg == <<"o", "g", "g">>
Wav == <<"w", "a", "v">>

----------------------------------------------------------------------------
(* The file system the player runs on *)

NameA == <<"a", ".", "m", "p", "3">>
NameB == <<"b", ".", "t", "x", "t">>
NameC == <<"c", ".", "f", "l", "a", "c">>
NameD == <<"d", ".", "o", "g", "g">>
NameE == <<"e", ".", "w", "a", "v">>
NameX == <<"x", ".", "w", "a", "v">>
NameY == <<"y", ".", "m", "p", "3">>

\* A directory entry: its name and what the scan finds of it.  "file" and
\* "dir": what file_type() returns; "ioerr": item? or file_type()? fails on
\* it; "nonutf8": its file name is not Unicode (name stands for the bytes),
\* so that into_string() fails.
Entry(name, kind) == [name |-> name, kind |-> kind]

\* The folder the player loads, in the order read_dir enumerates it; each of
\* its entries may be there or not when a load scans it.
Folder ==
    <<Entry(NameA, "file"), Entry(NameC, "file"), Entry(NameE, "file"),
      Entry(NameX, "ioerr"), Entry(NameY, "nonutf8")>>

\* the entries of the directories the scan alone is run on
ScanEntries ==
    { Folder[i] : i \in 1..Len(Folder) } \cup { Entry(NameB, "file"), Entry(NameD, "dir") }

\* the listing of the entries of Folder at the positions in present
Present(present) == SelectSeq(Folder, LAMBDA e : \E i \in present : Folder[i] = e)

RECURSIVE Listings(_, _)
\* the listings of at most n distinct entries of E, in any enumeration order
Listings(E, n) ==
    IF n = 0 THEN { << >> }
    ELSE LET shorter == Listings(E, n - 1)
         IN  shorter \cup
             { Append(de[1], de[2]) : de \in
                 { x \in shorter \X E :
                      /\ Len(x[1]) = n - 1
                      /\ \A i \in 1..Len(x[1]) : x[1][i] # x[2] } }

\* what a load may find in the folder: at most MaxDirLen of its entries
Dirs ==
    { Present(present) : present \in
        { q \in SUBSET (1..Len(Folder)) : Cardinality(q) <= MaxDirLen } }

None == [some |-> FALSE, secs |-> 0]
Some(d) == [some |-> TRUE, secs |-> d]

\* Source::total_duration() of the stream decoded from the file of that name
TotalDuration(name) ==
    IF name = NameC THEN Some(1)
    ELSE IF name = NameE THEN Some(0)
    ELSE None

----------------------------------------------------------------------------
(* PlayState *)

Play(b) == [tag |-> "Play", flag |-> b]
Pause(b) == [tag |-> "Pause", flag |-> b]
Restart == [tag |-> "Restart", flag |-> FALSE]

PlayStates == { Play(TRUE), Play(FALSE), Pause(TRUE), Pause(FALSE), Restart }

----------------------------------------------------------------------------
(* rodio::Sink: the queue of appended sources, the pause flag and the      *)
(* position get_pos() reports.  A source is the path it was decoded from   *)
(* and the seconds of it played so far.                                    *)

SinkNew == [queue |-> << >>, paused |-> FALSE, pos |-> 0]

\* Sink::play
SinkPlay(s) == [s EXCEPT !.paused = FALSE]

\* Sink::pause
SinkPause(s) == [s EXCEPT !.paused = TRUE]

\* Sink::append of the source decoded from the file path
SinkAppend(s, path) == [s EXCEPT !.queue = Append(@, [path |-> path, played |-> 0])]

\* Sink::clear: drops the queue and pauses
SinkClear(s) == [queue |-> << >>, paused |-> TRUE, pos |-> 0]

\* Sink::empty
SinkEmpty(s) == Len(s.queue) = 0

\* Sink::is_paused answering false whatever the pause flag
SinkIsPausedNever(s) == FALSE

\* Sink::is_paused
SinkIsPaused(s) == s.paused

\* Sink::get_pos().as_secs()
SinkGetPos(s) == s.pos

\* the seconds a stream of this file plays before it ends
StreamLen(path) ==
    LET d == TotalDuration(path)
    IN  IF d.some /\ d.secs < MaxPos THEN d.secs ELSE MaxPos

----------------------------------------------------------------------------
(* App::load_file_path (src/main.rs:160-170) *)

\* the condition of line 165: && binds tighter than ||
Accept(e) ==
    \/ (e.kind = "file" /\ EndsWith(e.name, Mp3))
    \/ EndsWith(e.name, Flac)
    \/ EndsWith(e.name, Ogg)
    \/ EndsWith(e.name, Wav)

\* the index of the first entry at which the loop stops (an Err of item? or
\* file_type()?, or the panic of unwrap), Len(dir) + 1 when there is none
FirstStop(dir) ==
    LET bad == { i \in 1..Len(dir) : dir[i].kind \in { "ioerr", "nonutf8" } }
    IN  IF bad = {} THEN Len(dir) + 1
        ELSE CHOOSE i \in bad : \A j \in bad : i <= j

\* The loop of load_file_path over the listing dir; openOk is whether
\* read_dir(path) succeeded.  res: "ok" when the function returned Ok(()),
\* "err" when it returned an Err, "panic" when unwrap panicked; files:
\* audio_file_list.files at that point (reset first, then one insert_file
\* per accepted entry before the one the loop stopped at).
LoadFilePath(dir, openOk) ==
    IF ~openOk THEN [res |-> "err", files |-> << >>]
    ELSE LET stop == FirstStop(dir)
             read == SelectSeq(SubSeq(dir, 1, stop - 1), Accept)
         IN  [res |-> IF stop > Len(dir) THEN "ok"
                      ELSE IF dir[stop].kind = "nonutf8" THEN "panic"
                      ELSE "err",
              files |-> [i \in 1..Len(read) |-> read[i].name]]

----------------------------------------------------------------------------
(* History: the event the last step handled.  ev: the event; kind: the key *)
(* event kind; cmds: the commands it sent to the sink; decodes: its        *)
(* Decoder::new(File::open) attempts.                                      *)

Hist(ev, kind, cmds, decodes) ==
    [ev |-> ev, kind |-> kind, cmds |-> cmds, decodes |-> decodes]

NoEvent == Hist("none", "none", << >>, << >>)

\* History of the first playlist.  loads: 0 until a load selects a track, 1
\* while the playlist of that load is the one loaded, 2 once another load has
\* been handled; path: the file of the first stream appended to the sink
\* while loads = 1, NoStream before that and when loads = 2.
NoStream == << >>

NoFirst == [loads |-> 0, path |-> NoStream]

\* after a load that left the cursor at id
FirstAfterLoad(f, id) ==
    IF f.loads = 0
    THEN IF id # 0 THEN [loads |-> 1, path |-> NoStream] ELSE f
    ELSE [loads |-> 2, path |-> NoStream]

\* after a tick that sent cmds to the sink and left it as sink
FirstAfterTick(f, cmds, sink) ==
    IF /\ f.loads = 1
       /\ f.path = NoStream
       /\ \E i \in 1..Len(cmds) : cmds[i] = "append"
    THEN [f EXCEPT !.path = sink.queue[Len(sink.queue)].path]
    ELSE f

----------------------------------------------------------------------------
(* App::new (src/main.rs:94-109) and the head of run_app (226-229) *)

NoWalk == [n |-> 0, c0 |-> 0, c |-> 0, k |-> 0, checks |-> FALSE, dead |-> FALSE]

NoScan == [dir |-> << >>, openOk |-> FALSE, done |-> FALSE, res |-> "none", files |-> << >>]

NoDisplay ==
    [curr |-> 0, total |-> None, empty |-> TRUE, old |-> EmptyStr, done |-> FALSE,
     ok |-> TRUE, duration |-> EmptyStr, progress |-> EmptyStr]

InitApp ==
    /\ audio_path = EmptyStr
    /\ audio_sink = SinkNew
    /\ song_name = EmptyStr
    /\ song_curr_time = EmptyStr
    /\ song_duration = EmptyStr
    /\ song_progress = InitProgress
    /\ play_state = Pause(TRUE)
    /\ audio_file_list = [dirs |-> << >>, files |-> << >>]
    /\ curr_playlist = <<DotDot>>
    /\ curr_songid = 0
    /\ curr_songnum = 0
    /\ chan = 0
    /\ pc = "run"
    /\ last = NoEvent
    /\ first = NoFirst

Init == InitApp /\ adv = NoWalk /\ scan = NoScan /\ disp = NoDisplay

----------------------------------------------------------------------------
(* KeyCode::Char('p') (src/main.rs:239-256) *)

KeyKinds == { "Press", "Release", "Repeat" }

\* ToggleArm with Paused(true) moved to the first arm: a press in the initial
\* state would start playback
ToggleArmPrimedPlays(ps, kind) ==
    IF (ps = Pause(FALSE) \/ ps = Play(TRUE) \/ ps = Pause(TRUE)) /\ kind = "Press" THEN "play"
    ELSE IF ps = Play(FALSE) /\ kind = "Press" THEN "pause"
    ELSE "none"

\* ToggleArm without the guards on key.kind: a release or a repeat toggles
\* as a press does
ToggleArmAnyKind(ps, kind) ==
    IF ps = Pause(FALSE) \/ ps = Play(TRUE) THEN "play"
    ELSE IF ps = Play(FALSE) \/ ps = Pause(TRUE) THEN "pause"
    ELSE "none"

\* which arm of the match on play_state a 'p' key of that kind takes
ToggleArm(ps, kind) ==
    IF (ps = Pause(FALSE) \/ ps = Play(TRUE)) /\ kind = "Press" THEN "play"
    ELSE IF (ps = Play(FALSE) \/ ps = Pause(TRUE)) /\ kind = "Press" THEN "pause"
    ELSE "none"

\* KeyArm without the guard of line 239
KeyArmUnguarded(id, ps, kind) == ToggleArm(ps, kind)

\* the guard of line 239 and then the match: the arm a 'p' key takes
KeyArm(id, ps, kind) == IF id # 0 THEN ToggleArm(ps, kind) ELSE "none"

\* ArmState with Play(true) assigned at line 246
ArmStatePending(arm, ps) ==
    IF arm = "play" THEN Play(TRUE)
    ELSE IF arm = "pause" THEN Pause(FALSE)
    ELSE ps

\* Lines 246 and 251: the play state the arm taken leaves, from ps
ArmState(arm, ps) ==
    IF arm = "play" THEN Play(FALSE)
    ELSE IF arm = "pause" THEN Pause(FALSE)
    ELSE ps

\* Sink::sleep_until_end: returns once every source has been played
SinkSleepUntilEnd(s) == [s EXCEPT !.queue = << >>]

Toggle ==
    /\ pc = "run"
    /\ \E kind \in KeyKinds :
         LET arm == KeyArm(curr_songid, play_state, kind)
             recv == arm = "play" /\ chan > 0
         IN  /\ audio_sink' =
                   IF arm = "play" THEN
                       IF recv THEN SinkClear(SinkSleepUntilEnd(SinkPlay(audio_sink)))
                       ELSE SinkPlay(audio_sink)
                   ELSE IF arm = "pause" THEN SinkPause(audio_sink)
                   ELSE audio_sink
             /\ play_state' = ArmState(arm, play_state)
             /\ chan' = IF recv THEN chan - 1 ELSE chan
             /\ last' = Hist("p", kind,
                             IF arm = "play" THEN
                                 IF recv THEN <<"play", "clear">> ELSE <<"play">>
                             ELSE IF arm = "pause" THEN <<"pause">>
                             ELSE << >>,
                             << >>)
    /\ UNCHANGED <<audio_path, song_name, song_curr_time, song_duration, song_progress,
                   audio_file_list, curr_playlist, curr_songid, curr_songnum, pc,
                   first, adv, scan, disp>>

----------------------------------------------------------------------------
(* KeyCode::Char('l') (src/main.rs:257-269) *)

\* files.len() as u16
AsU16(n) == n % U16Mod

\* Lines 259-268: what the handler leaves in the cursor, the count, the
\* playlist, the active path and the displayed name, from the files the scan
\* left in audio_file_list
LoadResult(files, playlist, path, name) ==
    LET num == AsU16(Len(files))
    IN  IF num # 0
        THEN [curr_songnum |-> num, curr_songid |-> 1, curr_playlist |-> files,
              audio_path |-> files[(1 - 1) + 1], song_name |-> name]
        ELSE [curr_songnum |-> num, curr_songid |-> 0, curr_playlist |-> playlist,
              audio_path |-> path, song_name |-> NoAudioMsg]

\* the handler run on the listing dir
LoadDir(dir, openOk) ==
    LET r == LoadFilePath(dir, openOk)
        n == LoadResult(r.files, curr_playlist, audio_path, song_name)
    IN  /\ audio_file_list' = [audio_file_list EXCEPT !.files = r.files]
        /\ IF r.res = "panic"
           THEN /\ pc' = "panic"
                /\ last' = Hist("l", "panicked", << >>, << >>)
                /\ UNCHANGED <<curr_songnum, curr_songid, curr_playlist, audio_path,
                               song_name>>
           ELSE /\ curr_songnum' = n.curr_songnum
                /\ curr_songid' = n.curr_songid
                /\ curr_playlist' = n.curr_playlist
                /\ audio_path' = n.audio_path
                /\ song_name' = n.song_name
                /\ last' = Hist("l", IF r.res = "ok" THEN "scanned" ELSE "failed",
                                << >>, << >>)
                /\ pc' = pc
        /\ first' = FirstAfterLoad(first, curr_songid')
        /\ UNCHANGED <<audio_sink, song_curr_time, song_duration, song_progress,
                       play_state, chan, adv, scan, disp>>

Load ==
    /\ pc = "run"
    /\ \/ \E dir \in Dirs : LoadDir(dir, TRUE)
       \/ LoadDir(<< >>, FALSE)

----------------------------------------------------------------------------
(* KeyCode::Char('q') (src/main.rs:235-238) and any other key (270) *)

Quit ==
    /\ pc = "run"
    /\ chan' = chan + 1
    /\ pc' = "quit"
    /\ last' = Hist("q", "none", << >>, << >>)
    /\ UNCHANGED <<audio_path, audio_sink, song_name, song_curr_time, song_duration,
                   song_progress, play_state, audio_file_list, curr_playlist,
                   curr_songid, curr_songnum, first, adv, scan, disp>>

\* the arm _ => {}: nothing is handled
OtherKey ==
    /\ pc = "run"
    /\ UNCHANGED vars

----------------------------------------------------------------------------
(* The tick: the else branch of event::poll (src/main.rs:274-306) *)

\* Lines 124-128: the seconds of the total duration the decoder reports,
\* 36000 when it reports none
DurationSecs(t) == IF t.some THEN t.secs ELSE UnknownDur

\* Lines 129-134: song_duration for that many seconds
DurationText(dur) == IF dur < UnknownDur THEN FormatTime(dur) ELSE DurPlaceholder

\* App::show_song_duration (118-141).  decodeOk: whether
\* Decoder::new(File::open(audio_path)) succeeds.  ok: the function returned
\* Ok(dur); text: song_duration when it returns.
ShowSongDuration(path, old, decodeOk) ==
    IF path # EmptyStr THEN
        IF ~decodeOk THEN [ok |-> FALSE, dur |-> 0, text |-> old]
        ELSE LET dur == DurationSecs(TotalDuration(path))
             IN  [ok |-> TRUE, dur |-> dur, text |-> DurationText(dur)]
    ELSE [ok |-> TRUE, dur |-> 1, text |-> EmptyStr]

\* App::show_song_progress (142-155).  ok: the function returned; it does not
\* when curr * length / dur divides by zero, nor when length - progress goes
\* below zero (a panic with overflow checks; without them a loop of about
\* 2^64 pushes, ended by the allocator).  text: song_progress at that point.
ShowSongProgress(curr, dur, old, sinkEmpty) ==
    IF dur = UnknownDur THEN [ok |-> TRUE, text |-> IndeterminateBar]
    ELSE IF dur = 0 THEN [ok |-> FALSE, text |-> old]
    ELSE LET progress == (curr * BarLength) \div dur
         IN  IF sinkEmpty THEN [ok |-> TRUE, text |-> old]
             ELSE IF progress > BarLength
                  THEN [ok |-> FALSE, text |-> Repeat("=", progress) \o <<">">>]
                  ELSE [ok |-> TRUE,
                        text |-> Repeat("=", progress) \o <<">">>
                                   \o Repeat("-", BarLength - progress)]

\* AdvanceCursor without lines 290-292: no wrap to 1
AdvanceCursorNoWrap(id, num, checks) ==
    IF id + 1 > U16Max /\ checks THEN [ok |-> FALSE, id |-> id]
    ELSE [ok |-> TRUE, id |-> (id + 1) % U16Mod]

\* Lines 289-292: curr_songid += 1, then the wrap to 1.  checks: whether the
\* build has overflow checks (then 65535 + 1 panics; without them it is 0).
AdvanceCursor(id, num, checks) ==
    IF id + 1 > U16Max /\ checks THEN [ok |-> FALSE, id |-> id]
    ELSE LET inc == (id + 1) % U16Mod
         IN  [ok |-> TRUE, id |-> IF inc > num THEN 1 ELSE inc]

\* (app.curr_songid - 1) as usize, the index of lines 263 and 293
PlaylistIndex(id, checks) ==
    IF id - 1 < 0 /\ checks THEN [ok |-> FALSE, idx |-> 0]
    ELSE [ok |-> TRUE, idx |-> (id - 1) % U16Mod]

\* The record of what a tick reads and writes
TickState ==
    [pc |-> pc, audio_path |-> audio_path, audio_sink |-> audio_sink,
     song_name |-> song_name, song_curr_time |-> song_curr_time,
     song_duration |-> song_duration, song_progress |-> song_progress,
     play_state |-> play_state, curr_songid |-> curr_songid,
     cmds |-> << >>, decodes |-> << >>]

Decode(site, path, ok) == [site |-> site, path |-> path, ok |-> ok]

\* Failed with the error dropped instead of returned: the loop goes on
FailedSwallowed(st, d) == [st EXCEPT !.decodes = Append(@, d)]

\* The ? operator on a failed Decoder::new(File::open): run_app returns the
\* error
Failed(st, d) == [st EXCEPT !.pc = "error", !.decodes = Append(@, d)]

\* the same call succeeding
Decoded(st, d) == [st EXCEPT !.decodes = Append(@, d)]

\* App::show_song_info (110-112)
ShowSongInfo(st) == [st EXCEPT !.song_name = st.audio_path]

\* Prime without line 285: the primed stream is not paused
PrimeNoPause(st) ==
    [Decoded(st, Decode("prime", st.audio_path, TRUE)) EXCEPT
        !.audio_sink = SinkAppend(@, st.audio_path),
        !.play_state = Pause(FALSE),
        !.cmds = <<"append">>]

\* Lines 282-286 once the file is opened and decoded: the stream of the
\* active path is appended, the sink paused, the state set to Pause(false)
Prime(st) ==
    [Decoded(st, Decode("prime", st.audio_path, TRUE)) EXCEPT
        !.audio_sink = SinkPause(SinkAppend(@, st.audio_path)),
        !.play_state = Pause(FALSE),
        !.cmds = <<"append", "pause">>]

\* Lines 280-300: the match on play_state of a tick whose sink is empty with
\* a track selected.  appOk: whether the Decoder::new(File::open) of the
\* append succeeds.
TickMatch(st, appOk, checks) ==
    IF st.play_state = Pause(TRUE) THEN
        IF ~appOk THEN Failed(st, Decode("prime", st.audio_path, FALSE))
        ELSE ShowSongInfo(Prime(st))
    ELSE IF st.play_state = Play(FALSE) THEN
        LET a == AdvanceCursor(st.curr_songid, curr_songnum, checks)
            ix == PlaylistIndex(a.id, checks)
            s1 == [st EXCEPT !.curr_songid = a.id]
        IN  IF ~a.ok THEN [st EXCEPT !.pc = "panic"]
            ELSE IF ~ix.ok \/ ix.idx >= Len(curr_playlist) THEN [s1 EXCEPT !.pc = "panic"]
            ELSE LET path == curr_playlist[ix.idx + 1]
                     s2 == [s1 EXCEPT !.audio_path = path]
                 IN  IF ~appOk THEN Failed(s2, Decode("next", path, FALSE))
                     ELSE ShowSongInfo(
                            [Decoded(s2, Decode("next", path, TRUE)) EXCEPT
                                !.audio_sink = SinkAppend(@, path),
                                !.cmds = <<"append">>])
    ELSE ShowSongInfo(st)

\* Lines 275-305.  durOk: whether the decode of show_song_duration succeeds.
TickBody(st, durOk, appOk, checks) ==
    IF SinkIsPaused(st.audio_sink) THEN st
    ELSE LET curr == SinkGetPos(st.audio_sink)
             s0 == [st EXCEPT !.song_curr_time = FormatTime(curr)]
             d == ShowSongDuration(st.audio_path, st.song_duration, durOk)
             dec == Decode("duration", st.audio_path, durOk)
             s1 == [s0 EXCEPT !.song_duration = d.text]
             s2 == IF st.audio_path # EmptyStr THEN Decoded(s1, dec) ELSE s1
             p == ShowSongProgress(curr, d.dur, st.song_progress, SinkEmpty(st.audio_sink))
             s3 == [s2 EXCEPT !.song_progress = p.text]
         IN  IF ~d.ok THEN Failed(s0, dec)
             ELSE IF ~p.ok THEN [s3 EXCEPT !.pc = "panic"]
             ELSE IF SinkEmpty(s3.audio_sink) /\ s3.curr_songid # 0
                  THEN TickMatch(s3, appOk, checks)
                  ELSE s3

Tick ==
    /\ pc = "run"
    /\ \E durOk, appOk, checks \in BOOLEAN :
         LET st == TickBody(TickState, durOk, appOk, checks)
         IN  /\ pc' = st.pc
             /\ audio_path' = st.audio_path
             /\ audio_sink' = st.audio_sink
             /\ song_name' = st.song_name
             /\ song_curr_time' = st.song_curr_time
             /\ song_duration' = st.song_duration
             /\ song_progress' = st.song_progress
             /\ play_state' = st.play_state
             /\ curr_songid' = st.curr_songid
             /\ last' = Hist("tick", "none", st.cmds, st.decodes)
             /\ first' = FirstAfterTick(first, st.cmds, st.audio_sink)
    /\ UNCHANGED <<audio_file_list, curr_playlist, curr_songnum, chan, adv, scan, disp>>

----------------------------------------------------------------------------
(* The audio thread: it plays the head of the queue while the sink is not  *)
(* paused, and publishes the head's position.                              *)

\* one more second of the head is played
SinkAdvance ==
    /\ pc = "run"
    /\ ~audio_sink.paused
    /\ Len(audio_sink.queue) > 0
    /\ LET head == audio_sink.queue[1]
       IN  /\ head.played < StreamLen(head.path)
           /\ audio_sink' = [audio_sink EXCEPT !.queue[1].played = head.played + 1,
                                               !.pos = head.played + 1]
    /\ last' = Hist("audio", "none", << >>, << >>)
    /\ UNCHANGED <<audio_path, song_name, song_curr_time, song_duration, song_progress,
                   play_state, audio_file_list, curr_playlist, curr_songid,
                   curr_songnum, chan, pc, first, adv, scan, disp>>

\* the position of a newly appended source replaces the stale one
SinkPeriodic ==
    /\ pc = "run"
    /\ Len(audio_sink.queue) > 0
    /\ audio_sink.pos # audio_sink.queue[1].played
    /\ audio_sink' = [audio_sink EXCEPT !.pos = audio_sink.queue[1].played]
    /\ last' = Hist("audio", "none", << >>, << >>)
    /\ UNCHANGED <<audio_path, song_name, song_curr_time, song_duration, song_progress,
                   play_state, audio_file_list, curr_playlist, curr_songid,
                   curr_songnum, chan, pc, first, adv, scan, disp>>

\* the head ends: a stream of known length when it has been played, a stream
\* of unknown length at any time
SinkFinish ==
    /\ pc = "run"
    /\ ~audio_sink.paused
    /\ Len(audio_sink.queue) > 0
    /\ LET head == audio_sink.queue[1]
       IN  \/ ~TotalDuration(head.path).some
           \/ head.played >= StreamLen(head.path)
    /\ audio_sink' = [audio_sink EXCEPT !.queue = Tail(@)]
    /\ last' = Hist("audio", "none", << >>, << >>)
    /\ UNCHANGED <<audio_path, song_name, song_curr_time, song_duration, song_progress,
                   play_state, audio_file_list, curr_playlist, curr_songid,
                   curr_songnum, chan, pc, first, adv, scan, disp>>

----------------------------------------------------------------------------

Next ==
    \/ Toggle
    \/ Load
    \/ Quit
    \/ OtherKey
    \/ Tick
    \/ SinkAdvance
    \/ SinkPeriodic
    \/ SinkFinish

Spec == Init /\ [][Next]_vars

----------------------------------------------------------------------------
(* The player on a folder that holds, at the first load, more files than   *)
(* the u16 count of line 259 can hold                                      *)

\* the name of the i-th file of such a folder
WideName(i) == DecStr(i) \o <<".", "m", "p", "3">>

\* a listing of n audio files
Wide(n) == [i \in 1..n |-> Entry(WideName(i), "file")]

WideDirs == { Wide(U16Mod) }

\* the first load of the run, on such a folder
LoadWide ==
    /\ pc = "run"
    /\ last.ev = "none"
    /\ \E dir \in WideDirs : LoadDir(dir, TRUE)

NextWide == Next \/ LoadWide

SpecWide == Init /\ [][NextWide]_vars

----------------------------------------------------------------------------
(* The cursor transition of lines 289-292 on its own: a walk of n advances *)
(* from cursor c0 over a playlist of n tracks, for the counts and cursors  *)
(* a u16 holds.                                                            *)

AdvCounts == { 1, 2, 3, U16Max }

Walk(n, c0, b) ==
    [n |-> n, c0 |-> c0, c |-> c0, k |-> 0, checks |-> b, dead |-> FALSE]

InitAdvance ==
    /\ InitApp
    /\ scan = NoScan
    /\ disp = NoDisplay
    /\ adv \in UNION { { Walk(n, c0, b) : c0 \in { 1, n }, b \in BOOLEAN } : n \in AdvCounts }

AdvanceStep ==
    /\ ~adv.dead
    /\ adv.k < adv.n
    /\ LET a == AdvanceCursor(adv.c, adv.n, adv.checks)
       IN  adv' = IF a.ok THEN [adv EXCEPT !.c = a.id, !.k = adv.k + 1]
                  ELSE [adv EXCEPT !.dead = TRUE]
    /\ UNCHANGED <<appVars, scan, disp>>

NextAdvance == AdvanceStep

SpecAdvance == InitAdvance /\ [][NextAdvance]_vars

----------------------------------------------------------------------------
(* App::load_file_path on its own, for every listing of ScanEntries *)

InitScan ==
    /\ InitApp
    /\ adv = NoWalk
    /\ disp = NoDisplay
    /\ scan \in { [dir |-> d, openOk |-> o, done |-> FALSE, res |-> "none", files |-> << >>] :
                    d \in Listings(ScanEntries, MaxDirLen), o \in BOOLEAN }

ScanStep ==
    /\ ~scan.done
    /\ LET r == LoadFilePath(scan.dir, scan.openOk)
       IN  scan' = [scan EXCEPT !.done = TRUE, !.res = r.res, !.files = r.files]
    /\ UNCHANGED <<appVars, adv, disp>>

NextScan == ScanStep

SpecScan == InitScan /\ [][NextScan]_vars

----------------------------------------------------------------------------
(* The two display computations of a tick (src/main.rs:277-278) on their   *)
(* own: show_song_duration and show_song_progress for a position curr of   *)
(* the sink, a total duration the decoder reports, a sink that is empty or *)
(* not, and the bar old the previous tick left.                            *)

DisplayTotals ==
    { None, Some(0), Some(1), Some(UnknownDur - 1), Some(UnknownDur), Some(UnknownDur + 1) }

InitDisplay ==
    /\ InitApp
    /\ adv = NoWalk
    /\ scan = NoScan
    /\ disp \in { [curr |-> c, total |-> t, empty |-> e, old |-> o, done |-> FALSE,
                    ok |-> TRUE, duration |-> EmptyStr, progress |-> o] :
                      c \in 0..MaxPos, t \in DisplayTotals, e \in BOOLEAN,
                      o \in { InitProgress, IndeterminateBar } }

DisplayStep ==
    /\ ~disp.done
    /\ LET dur == DurationSecs(disp.total)
           p == ShowSongProgress(disp.curr, dur, disp.old, disp.empty)
       IN  disp' = [disp EXCEPT !.done = TRUE, !.ok = p.ok,
                                !.duration = DurationText(dur), !.progress = p.text]
    /\ UNCHANGED <<appVars, adv, scan>>

NextDisplay == DisplayStep

SpecDisplay == InitDisplay /\ [][NextDisplay]_vars

----------------------------------------------------------------------------
(* The claims *)

\* the last step was a 'p' key in its press phase
PressedP(h) == h.ev = "p" /\ h.kind = "Press"

\* what a step leaves alone when it changes nothing of the player
PlayerUnchanged ==
    UNCHANGED <<audio_path, audio_sink, song_name, song_curr_time, song_duration,
                song_progress, play_state, audio_file_list, curr_playlist,
                curr_songid, curr_songnum, chan, pc>>

\* C1: a 'p' press with a track selected takes Paused(false) and Playing(true)
\* to Playing(false) and un-pauses the sink; it takes Playing(false) and
\* Paused(true) to Paused(false) and pauses the sink; in any other play
\* state it changes nothing.
C1_TogglePress ==
    [][ (PressedP(last') /\ curr_songid # 0) =>
          /\ (play_state \in { Pause(FALSE), Play(TRUE) } =>
                /\ play_state' = Play(FALSE)
                /\ ~audio_sink'.paused
                /\ audio_sink'.queue = audio_sink.queue
                /\ last'.cmds = <<"play">>)
          /\ (play_state \in { Play(FALSE), Pause(TRUE) } =>
                /\ play_state' = Pause(FALSE)
                /\ audio_sink'.paused
                /\ audio_sink'.queue = audio_sink.queue
                /\ last'.cmds = <<"pause">>)
          /\ (play_state \notin { Pause(FALSE), Play(TRUE), Play(FALSE), Pause(TRUE) } =>
                PlayerUnchanged /\ last'.cmds = << >>)
          /\ UNCHANGED <<curr_songid, curr_songnum, curr_playlist, audio_path>>
      ]_vars

\* C1 witness: a press has resumed a primed, paused track
C1_Witness ==
    /\ PressedP(last)
    /\ last.cmds = <<"play">>
    /\ play_state = Play(FALSE)
    /\ curr_songid # 0
    /\ ~audio_sink.paused
    /\ Len(audio_sink.queue) = 1

\* C2: after a load whose scan left at least one file, cursor = 1, the count
\* is the number of scanned files, the playlist is the scan result and the
\* active path is the playlist entry at cursor - 1; after a load whose scan
\* left none, cursor = 0 and the displayed name is the "no audio files"
\* message.
C2_Load ==
    (last.ev = "l" /\ pc = "run") =>
        LET files == audio_file_list.files
        IN  IF Len(files) >= 1
            THEN /\ curr_songid = 1
                 /\ curr_songnum = Len(files)
                 /\ curr_playlist = files
                 /\ audio_path = curr_playlist[(curr_songid - 1) + 1]
            ELSE /\ curr_songid = 0
                 /\ song_name = NoAudioMsg

\* C2 witness: a load of two files has replaced a playlist that was playing
\* its second track
C2_Witness ==
    /\ last.ev = "l"
    /\ curr_songid = 1
    /\ curr_songnum = 2
    /\ audio_path = curr_playlist[1]
    /\ Len(audio_sink.queue) = 1
    /\ audio_sink.queue[1].path = curr_playlist[2]

\* C2 witness of the other case: a load of an empty scan after a track was
\* selected
C2_WitnessEmpty ==
    /\ last.ev = "l"
    /\ curr_songid = 0
    /\ song_name = NoAudioMsg
    /\ audio_path # EmptyStr


\* a tick found the sink un-paused and empty, with a track selected, in
\* Playing(false)
TickAtEnd ==
    /\ last'.ev = "tick"
    /\ ~audio_sink.paused
    /\ Len(audio_sink.queue) = 0
    /\ play_state = Play(FALSE)
    /\ curr_songid # 0

\* C3: a tick that finds the sink un-paused and empty in Playing(false) with
\* a track selected advances the cursor by one, wrapping to 1 from the last
\* track, makes the playlist entry at the new cursor the active path, appends
\* its stream, and leaves the sink un-paused in Playing(false).  A tick ended
\* by a failing open or decode (the fatal error of C10) is left out.
C3_TickAdvances ==
    [][ (TickAtEnd /\ pc' # "error") =>
          /\ pc' = "run"
          /\ curr_songid' = (IF curr_songid = curr_songnum THEN 1 ELSE curr_songid + 1)
          /\ audio_path' = curr_playlist[(curr_songid' - 1) + 1]
          /\ audio_sink'.queue = <<[path |-> audio_path', played |-> 0]>>
          /\ ~audio_sink'.paused
          /\ play_state' = Play(FALSE)
      ]_vars

\* C3 witness: such a tick has wrapped from the last of two tracks to the
\* first
C3_Witness ==
    /\ last.ev = "tick"
    /\ last.cmds = <<"append">>
    /\ pc = "run"
    /\ play_state = Play(FALSE)
    /\ curr_songnum = 2
    /\ curr_songid = 1
    /\ audio_sink.queue = <<[path |-> curr_playlist[1], played |-> 0]>>

\* C4: n advances from cursor c0, over n tracks, return the cursor to c0, and
\* none of them fails.
C4_AdvanceLoops ==
    /\ ~adv.dead
    /\ (adv.k = adv.n => adv.c = adv.c0)

\* C4 witness: a walk over three tracks has come back to its start
C4_Witness ==
    /\ adv.n = 3
    /\ adv.k = 3
    /\ adv.c = adv.c0

\* C5: 0 <= cursor <= track count.
C5_CursorInRange ==
    /\ 0 <= curr_songid
    /\ curr_songid <= curr_songnum

\* C5 witness: a failed load has left a shorter playlist than the one whose
\* second track was playing
C5_Witness ==
    /\ last.ev = "l"
    /\ last.kind = "failed"
    /\ curr_songid = 1
    /\ curr_songnum = 1
    /\ Len(audio_sink.queue) = 1
    /\ audio_sink.queue[1].path # curr_playlist[1]

\* C6: when cursor = 0 the sink holds no stream.
C6_NoTrackNoAudio ==
    curr_songid = 0 => Len(audio_sink.queue) = 0

\* C7: while cursor = 0 a 'p' key of any kind changes nothing of the player
\* and sends no command to the sink.
C7_ToggleIgnored ==
    [][ (last'.ev = "p" /\ curr_songid = 0) =>
          (PlayerUnchanged /\ last'.cmds = << >>)
      ]_vars

\* C7 witness: a press arrived with no track selected while the sink still
\* held a stream in Playing(false)
C7_Witness ==
    /\ PressedP(last)
    /\ curr_songid = 0
    /\ play_state = Play(FALSE)
    /\ Len(audio_sink.queue) = 1

\* name ends with one of mp3, flac, ogg, wav
AudioName(n) ==
    EndsWith(n, Mp3) \/ EndsWith(n, Flac) \/ EndsWith(n, Ogg) \/ EndsWith(n, Wav)

\* a regular file with an audio name
AudioFile(e) == e.kind = "file" /\ AudioName(e.name)

\* C8: a scan that succeeds returns, in enumeration order, exactly the
\* entries that are regular files with a name ending in mp3, flac, ogg or
\* wav.
C8_ScanResult ==
    (scan.done /\ scan.res = "ok") =>
        LET want == SelectSeq(scan.dir, AudioFile)
        IN  scan.files = [i \in 1..Len(want) |-> want[i].name]

\* C8 witness: a scan has kept an audio file and dropped a text file
C8_Witness ==
    /\ scan.done
    /\ scan.res = "ok"
    /\ scan.dir = <<Entry(NameA, "file"), Entry(NameB, "file")>>
    /\ scan.files = <<NameA>>

\* C9: a load whose scan fails leaves the playlist, the cursor, the count,
\* the active path and the displayed name as they were.
C9_FailedScanKeeps ==
    [][ (last'.ev = "l" /\ last'.kind = "failed") =>
          UNCHANGED <<curr_playlist, curr_songid, curr_songnum, audio_path, song_name>>
      ]_vars

\* a decode attempt of the last step failed
DecodeFailed == \E i \in 1..Len(last.decodes) : ~last.decodes[i].ok

\* C10: a tick in which an open or decode fails ends the run loop with the
\* error, and nothing is handled after that.
C10_DecodeFatal ==
    /\ [](DecodeFailed => pc = "error")
    /\ [][pc # "error"]_vars

\* C10 witness: the open of the next track failed and the loop has ended
C10_Witness ==
    /\ pc = "error"
    /\ Len(last.decodes) = 2
    /\ last.decodes[2].site = "next"
    /\ ~last.decodes[2].ok

\* a tick found the sink un-paused with a stream loaded, and the stream of
\* the active path decoded with a known total other than 36000
TickRecomputes ==
    /\ last'.ev = "tick"
    /\ ~audio_sink.paused
    /\ Len(audio_sink.queue) > 0
    /\ pc' # "error"
    /\ audio_path # EmptyStr
    /\ TotalDuration(audio_path).some
    /\ TotalDuration(audio_path).secs # UnknownDur

\* C11: a tick that recomputes progress while a stream is loaded, for a total
\* other than 36000, completes and leaves as the progress bar
\* floor(elapsed * 25 / total) characters '=', one '>' and then '-' up to 26
\* characters in all; this is defined for every elapsed and total, total = 0
\* and elapsed > total included.
C11_ProgressBar ==
    [][ TickRecomputes =>
          LET elapsed == audio_sink.pos
              total == TotalDuration(audio_path).secs
          IN  /\ pc' = "run"
              /\ total # 0
              /\ LET filled == (elapsed * BarLength) \div total
                 IN  /\ filled <= BarLength
                     /\ song_progress' = Repeat("=", filled) \o <<">">>
                                            \o Repeat("-", BarLength - filled)
                     /\ Len(song_progress') = BarLength + 1
      ]_vars

\* C11 witness: a tick has drawn the bar of a stream played to its end, 25
\* fill characters and the cursor
C11_Witness ==
    /\ last.ev = "tick"
    /\ pc = "run"
    /\ Len(audio_sink.queue) = 1
    /\ audio_sink.queue[1].path = audio_path
    /\ audio_sink.pos = 1
    /\ TotalDuration(audio_path) = Some(1)
    /\ song_progress = Repeat("=", BarLength) \o <<">">>

\* C12: when a tick has recomputed the display, the total-time display is the
\* placeholder if and only if the progress bar is the indeterminate bar, for
\* every total duration the decoder reports.
C12_PlaceholderIffIndeterminate ==
    (disp.done /\ disp.ok) =>
        (disp.duration = DurPlaceholder <=> disp.progress = IndeterminateBar)

\* C12 witness: the decoder reported no total duration, and the display is the
\* placeholder over the indeterminate bar
C12_Witness ==
    /\ disp.done
    /\ disp.total = None
    /\ disp.old = InitProgress
    /\ disp.duration = DurPlaceholder
    /\ disp.progress = IndeterminateBar

\* C13: a 'p' key that is not in its press phase triggers nothing, in every
\* play state and for every cursor: the player is unchanged and no command
\* is sent to the sink.
C13_NonPressIgnored ==
    [][ (last'.ev = "p" /\ last'.kind # "Press") =>
          (PlayerUnchanged /\ last'.cmds = << >>)
      ]_vars

\* C13 witness: the release that follows a press which started playback has
\* left the track playing
C13_Witness ==
    /\ last.ev = "p"
    /\ last.kind = "Release"
    /\ curr_songid # 0
    /\ play_state = Play(FALSE)
    /\ ~audio_sink.paused
    /\ Len(audio_sink.queue) = 1

\* a tick found the sink un-paused and empty, with a track selected, in
\* Paused(true)
TickAtStart ==
    /\ last'.ev = "tick"
    /\ ~audio_sink.paused
    /\ Len(audio_sink.queue) = 0
    /\ play_state = Pause(TRUE)
    /\ curr_songid # 0

\* C14: a tick that finds the sink un-paused and empty in Paused(true) with a
\* track selected appends the stream of the active path, pauses the sink and
\* sets the play state to Paused(false); the cursor and the active path are
\* unchanged.  A tick ended by a failing open or decode (the fatal error of
\* C10) is left out.
C14_TickPrimes ==
    [][ (TickAtStart /\ pc' # "error") =>
          /\ pc' = "run"
          /\ audio_sink'.queue = <<[path |-> audio_path, played |-> 0]>>
          /\ audio_sink'.paused
          /\ last'.cmds = <<"append", "pause">>
          /\ play_state' = Pause(FALSE)
          /\ UNCHANGED <<curr_songid, curr_songnum, curr_playlist, audio_path>>
      ]_vars

\* C14 witness: the first track of two has been primed and is held paused
C14_Witness ==
    /\ last.ev = "tick"
    /\ last.cmds = <<"append", "pause">>
    /\ pc = "run"
    /\ play_state = Pause(FALSE)
    /\ curr_songid = 1
    /\ curr_songnum = 2
    /\ audio_sink.paused
    /\ audio_sink.queue = <<[path |-> curr_playlist[1], played |-> 0]>>

\* C15: while the playlist of the first load that selected a track is the one
\* loaded, whatever 'p' keys and ticks followed that load, the first stream
\* appended to the sink is that of the first playlist entry.
C15_FirstStreamIsFirstTrack ==
    (first.loads = 1 /\ first.path # NoStream) => first.path = curr_playlist[1]

\* C15 witness: the first stream appended after a load of two tracks was the
\* first of them, primed by the tick that followed the load
C15_Witness ==
    /\ first.loads = 1
    /\ curr_songnum = 2
    /\ first.path = curr_playlist[1]
    /\ play_state = Pause(FALSE)
    /\ last.cmds = <<"append", "pause">>

\* C16: a tick that finds the sink paused changes nothing: the cursor, the
\* sink, the play state, the active path, the displayed name, the two time
\* strings and the progress bar are unchanged, and nothing is opened or
\* decoded.
C16_PausedTickIdle ==
    [][ (last'.ev = "tick" /\ audio_sink.paused) =>
          (PlayerUnchanged /\ last'.cmds = << >> /\ last'.decodes = << >>)
      ]_vars

\* C16 witness: a tick found a track paused after a second of it was played,
\* and left the current-time string of the tick before
C16_Witness ==
    /\ last.ev = "tick"
    /\ last.decodes = << >>
    /\ audio_sink.paused
    /\ play_state = Pause(FALSE)
    /\ curr_songid # 0
    /\ Len(audio_sink.queue) = 1
    /\ audio_sink.pos = 1
    /\ song_curr_time = FormatTime(0)

\* C17: the play state is Paused(false) if and only if the sink is paused.
C17_PausedIffSinkPaused ==
    play_state = Pause(FALSE) <=> audio_sink.paused

\* C17 witness: a track that was playing has been paused by a press
C17_Witness ==
    /\ PressedP(last)
    /\ last.cmds = <<"pause">>
    /\ play_state = Pause(FALSE)
    /\ audio_sink.paused
    /\ Len(audio_sink.queue) = 1
    /\ audio_sink.pos = 1

\* C18: the play state is always one of Paused(true), Paused(false) and
\* Playing(false), and no step enters Paused(true): it is the initial state
\* only.
C18_PlayStates ==
    /\ [](play_state \in { Pause(TRUE), Pause(FALSE), Play(FALSE) })
    /\ [][play_state' = Pause(TRUE) => play_state = Pause(TRUE)]_vars

\* C18 witness: a second load was handled while a track was playing, and the
\* state is still Playing(false)
C18_Witness ==
    /\ last.ev = "l"
    /\ first.loads = 2
    /\ curr_songid = 1
    /\ play_state = Play(FALSE)
    /\ Len(audio_sink.queue) = 1

\* C20: whenever the sink holds a stream and a track is selected, that stream
\* was decoded from the active path, the playlist entry at cursor - 1.
C20_StreamOfActivePath ==
    (Len(audio_sink.queue) > 0 /\ curr_songid # 0) =>
        /\ audio_sink.queue[1].path = audio_path
        /\ audio_path = curr_playlist[(curr_songid - 1) + 1]

\* C20 witness: the sink plays the second track, to which the cursor advanced
C20_Witness ==
    /\ last.ev = "tick"
    /\ last.cmds = <<"append">>
    /\ curr_songid = 2
    /\ play_state = Play(FALSE)
    /\ audio_sink.queue = <<[path |-> curr_playlist[2], played |-> 0]>>
    /\ audio_path = curr_playlist[2]

\* C19, the access of the tick advance: after an advance over a playlist of n
\* tracks, the index (cursor - 1) as usize of line 293 is within the
\* playlist.
C19_AdvanceInBounds ==
    adv.k > 0 =>
        LET ix == PlaylistIndex(adv.c, adv.checks)
        IN  ix.ok /\ ix.idx < adv.n

\* C19 witness: an advance from the last of two tracks has wrapped to the
\* first, index 0
C19_AdvanceWitness ==
    /\ adv.n = 2
    /\ adv.c0 = 2
    /\ adv.k = 1
    /\ adv.c = 1
    /\ PlaylistIndex(adv.c, adv.checks).idx = 0

\* C19, the state of the player: whenever a track is selected, the track
\* count is the length of the playlist, the cursor is at most that length,
\* and the active path is the playlist entry at cursor - 1.
C19_IndexInBounds ==
    curr_songid # 0 =>
        /\ curr_songnum = Len(curr_playlist)
        /\ curr_songid <= Len(curr_playlist)
        /\ audio_path = curr_playlist[(curr_songid - 1) + 1]

\* C19 witness in the player: the open of the second track failed after the cursor and the
\* active path had moved to it
C19_Witness ==
    /\ pc = "error"
    /\ curr_songid = 2
    /\ Len(curr_playlist) = 2
    /\ audio_path = curr_playlist[2]
    /\ Len(audio_sink.queue) = 0

====
